---- MODULE Spec2Model ----
(***************************************************************************)
(* Model of routes/v1/video/concatenate_advanced.py: the request handler   *)
(* concatenate_advanced_api, one process per request (job), over a shared  *)
(* scratch directory.  Each action is one stretch of the handler between   *)
(* two calls of an external collaborator (download_file, subprocess.run,   *)
(* upload_file); the collaborators' outcomes are chosen by the environment.*)
(***************************************************************************)
EXTENDS Integers, Sequences, FiniteSets, TLC

VARIABLES job, fs, fs0

vars == <<job, fs, fs0>>

(***************************************************************************)
(* Bounds and value pools                                                  *)
(***************************************************************************)
MaxInputs == 2

\* how many times over a cleanup step is applied to the same paths
MaxCleanups == 2

Jobs == {1, 2}

\* config.LOCAL_STORAGE_PATH, the scratch directory
LOCAL_STORAGE_PATH == "/tmp"

\* a value of the JSON body that is not a string (a number, say)
NonString == "#7"

\* remote references a request can carry
Urls == {"http://a/x.mp4", "http://a/y.mp4"}

\* elements an input_urls list can hold: strings or not
Elems == Urls \cup {NonString}

\* paths download_file can hand back, all inside the scratch directory
DownloadPaths ==
    {LOCAL_STORAGE_PATH \o "/d1.mp4", LOCAL_STORAGE_PATH \o "/d2.mp4",
     LOCAL_STORAGE_PATH \o "/d3.mp4"}

\* a file of the scratch directory that belongs to no job
OtherFile == LOCAL_STORAGE_PATH \o "/other.bin"

\* references upload_file can return
Refs == {"gs://bucket/o1", "gs://bucket/o2"}

\* standard-error texts the tool can leave
StderrTexts == {"stderr:bad filter", "stderr:no stream"}

\* what str(e) of a collaborator's exception reads
FetchCause == "fetch: connection refused"
LaunchCause == "[Errno 2] No such file or directory: 'ffmpeg'"
UploadCause == "upload: storage write failed"
RemoveCause == "[Errno 13] Permission denied"

Range(s) == {s[i] : i \in 1..Len(s)}

SeqsUpTo(S, n) == UNION {[1..k -> S] : k \in 0..n}

(***************************************************************************)
(* Requests                                                                *)
(***************************************************************************)
\* input_urls of the body: absent, a truthy value that is no list, or a list
InputUrlsValues ==
    {[kind |-> "absent", val |-> <<>>], [kind |-> "nonlist", val |-> <<>>]}
    \cup {[kind |-> "list", val |-> s] : s \in SeqsUpTo(Elems, MaxInputs)}

\* filter_complex of the body: absent, a string (maybe empty), or a truthy non-string
FilterValues ==
    {[kind |-> "absent", val |-> ""], [kind |-> "nonstr", val |-> NonString],
     [kind |-> "str", val |-> ""],
     [kind |-> "str", val |-> "[0:v][1:v]concat=n=2:v=1[outv]"],
     [kind |-> "str", val |-> "[0:a][1:a]amix[outa]"]}

\* job_id of the body: absent or a caller-supplied string
JobIdValues == {[kind |-> "absent", val |-> ""], [kind |-> "str", val |-> "A"]}

NoFields ==
    [job_id |-> [kind |-> "absent", val |-> ""],
     input_urls |-> [kind |-> "absent", val |-> <<>>],
     filter_complex |-> [kind |-> "absent", val |-> ""]]

\* body: "absent" (no JSON body), "nonobject" (JSON that is no object), "object"
Requests ==
    {[body |-> b] @@ NoFields : b \in {"absent", "nonobject"}}
    \cup {[body |-> "object", job_id |-> i, input_urls |-> u, filter_complex |-> f] :
            i \in JobIdValues, u \in InputUrlsValues, f \in FilterValues}

(***************************************************************************)
(* The handler's pure parts                                                *)
(***************************************************************************)
\* str(uuid.uuid4()): a token no other call produces
Uuid4(j) == IF j = 1 THEN "uuid-1" ELSE "uuid-2"

\* request.json.get('job_id', str(uuid.uuid4()))
JobIdParam(req, j) == IF req.job_id.kind = "absent" THEN Uuid4(j) ELSE req.job_id.val

\* request.json: what evaluating it does for each kind of body.  With no JSON
\* body the framework, by version and content type, raises BadRequest, raises
\* UnsupportedMediaType, or yields None, on which .get raises AttributeError;
\* a body that is no object has no .get either.
RequestJsonGetRaises(req) ==
    CASE req.body = "absent" -> {"BadRequest", "UnsupportedMediaType", "AttributeError"}
      [] req.body = "nonobject" -> {"AttributeError"}
      [] OTHER -> {}

\* `not data`: the body is an empty object
DataIsEmpty(req) ==
    /\ req.job_id.kind = "absent"
    /\ req.input_urls.kind = "absent"
    /\ req.filter_complex.kind = "absent"

\* not (not input_urls or not isinstance(input_urls, list) or len(input_urls) == 0)
InputUrlsOk(u) ==
    ~ (\/ u.kind = "absent"
       \/ (u.kind = "list" /\ Len(u.val) = 0)
       \/ u.kind # "list"
       \/ Len(u.val) = 0)

\* the filter check with the emptiness test dropped
FilterComplexOk_TypeOnly(f) == f.kind = "str"

\* not (not filter_complex_str or not isinstance(filter_complex_str, str))
FilterComplexOk(f) ==
    ~ (\/ f.kind = "absent"
       \/ (f.kind = "str" /\ f.val = "")
       \/ f.kind # "str")

\* the JSON responses of the handler
NoResponse ==
    [status |-> 0, message |-> "", error |-> "", details |-> "", output_url |-> "", job_id |-> ""]

ErrorResponse(code, error, details) ==
    [NoResponse EXCEPT !.status = code, !.error = error, !.details = details]

InvalidJsonResponse == ErrorResponse(400, "Invalid JSON payload", "")

InvalidInputUrlsResponse == ErrorResponse(400, "Missing or invalid 'input_urls'", "")

InvalidFilterComplexResponse ==
    ErrorResponse(400, "Missing or invalid 'filter_complex' string", "")

DownloadFailedResponse(url, cause) ==
    ErrorResponse(500, "Failed to download input file: " \o url, cause)

FFmpegFailedResponse(stderr) ==
    ErrorResponse(500, "FFmpeg command execution failed", stderr)

OutputMissingResponse ==
    ErrorResponse(500, "Output file not found after FFmpeg execution", "")

SuccessResponse(final_output_url, job_id_param) ==
    [NoResponse EXCEPT !.status = 200, !.message = "Advanced concatenation successful",
                       !.output_url = final_output_url, !.job_id = job_id_param]

UnexpectedErrorResponse(cause) ==
    ErrorResponse(500, "An unexpected error occurred", cause)

\* os.path.join(LOCAL_STORAGE_PATH, f"{job_id_param}_advanced_concat_output" + ".mp4")
OutputFilepath(job_id_param) ==
    LOCAL_STORAGE_PATH \o "/" \o job_id_param \o "_advanced_concat_output" \o ".mp4"

\* for path in local_input_paths: command.extend(['-i', path])
RECURSIVE InputArgs(_)
InputArgs(paths) ==
    IF paths = <<>> THEN <<>> ELSE <<"-i", Head(paths)>> \o InputArgs(Tail(paths))

\* the fixed map and encoding arguments
OutputOptions ==
    <<"-map", "[outv]", "-map", "[outa]", "-c:v", "libx264", "-crf", "23",
      "-preset", "medium", "-c:a", "aac", "-b:a", "128k", "-movflags", "+faststart">>

\* the command with the filter graph placed ahead of the inputs
BuildCommand_FilterFirst(local_input_paths, filter_complex_str, output_filepath) ==
    <<"ffmpeg">> \o <<"-filter_complex", filter_complex_str>>
        \o InputArgs(local_input_paths)
        \o OutputOptions \o <<output_filepath>>

\* the argument vector handed to subprocess.run
BuildCommand(local_input_paths, filter_complex_str, output_filepath) ==
    <<"ffmpeg">> \o InputArgs(local_input_paths)
        \o <<"-filter_complex", filter_complex_str>>
        \o OutputOptions \o <<output_filepath>>

\* the loop without its os.path.exists test: os.remove of a missing file raises
RECURSIVE RemoveEach_NoExistsTest(_, _, _, _)
RemoveEach_NoExistsTest(files, paths, i, failAt) ==
    IF i > Len(paths) THEN [fs |-> files, raised |-> FALSE]
    ELSE IF paths[i] \notin files \/ i = failAt THEN [fs |-> files, raised |-> TRUE]
    ELSE RemoveEach_NoExistsTest(files \ {paths[i]}, paths, i + 1, failAt)

\* for p in paths: if os.path.exists(p): os.remove(p)
\* os.remove raises at the failAt-th path when that path exists (0: never);
\* the loop stops there.  Yields the directory left and whether it raised.
RECURSIVE RemoveEach(_, _, _, _)
RemoveEach(files, paths, i, failAt) ==
    IF i > Len(paths) THEN [fs |-> files, raised |-> FALSE]
    ELSE IF paths[i] \notin files THEN RemoveEach(files, paths, i + 1, failAt)
    ELSE IF i = failAt THEN [fs |-> files, raised |-> TRUE]
    ELSE RemoveEach(files \ {paths[i]}, paths, i + 1, failAt)

\* the cleanup loop stopping one path short
CleanupAfterDownloadFailure_SkipsLast(files, local_input_paths, failAt) ==
    RemoveEach(files, SubSeq(local_input_paths, 1, Len(local_input_paths) - 1), 1, failAt)

\* lines 80-81: after a failed download, remove what was downloaded so far
CleanupAfterDownloadFailure(files, local_input_paths, failAt) ==
    RemoveEach(files, local_input_paths, 1, failAt)

\* the cleanup that forgets the output file
CleanupAfterToolFailure_InputsOnly(files, local_input_paths, output_filepath, failAt) ==
    RemoveEach(files, local_input_paths, 1, failAt)

\* lines 127-129: after a failed tool run, remove the inputs, then the output
CleanupAfterToolFailure(files, local_input_paths, output_filepath, failAt) ==
    RemoveEach(files, Append(local_input_paths, output_filepath), 1, failAt)

\* the branch returning without any cleanup
CleanupAfterMissingOutput_Nothing(files, local_input_paths, failAt) ==
    [fs |-> files, raised |-> FALSE]

\* lines 136-137: the output is missing, remove the inputs
CleanupAfterMissingOutput(files, local_input_paths, failAt) ==
    RemoveEach(files, local_input_paths, 1, failAt)

\* the cleanup emptying the scratch directory
CleanupAfterUpload_WipesDirectory(files, local_input_paths, output_filepath, failAt) ==
    [fs |-> {}, raised |-> FALSE]

\* the cleanup that forgets the output file
CleanupAfterUpload_InputsOnly(files, local_input_paths, output_filepath, failAt) ==
    RemoveEach(files, local_input_paths, 1, failAt)

\* lines 145-147: after the upload, remove the inputs, then the output
CleanupAfterUpload(files, local_input_paths, output_filepath, failAt) ==
    RemoveEach(files, Append(local_input_paths, output_filepath), 1, failAt)

(***************************************************************************)
(* The collaborators, as the handler sees them                             *)
(***************************************************************************)
\* download_file(url, LOCAL_STORAGE_PATH) when it returns: a path of the scratch
\* directory under a name of its own making, which no file there bears yet (a
\* local artifact is owned by the job that created it), and the directory with
\* that file in it.  When it raises it has written nothing; it can only raise
\* for a reference that is no string.
download_file(files, url) ==
    IF url = NonString THEN {}
    ELSE {[path |-> p, fs |-> files \cup {p}] : p \in DownloadPaths \ files}

\* subprocess.run(command, check=True, capture_output=True, text=True): the tool
\* exits with status zero or not, having written the output file (the last
\* argument) or not; or the process cannot be launched.
subprocess_run(files, command) ==
    {[exit |-> e, stderr |-> t, wrote |-> w,
      fs |-> IF w THEN files \cup {command[Len(command)]} ELSE files] :
        e \in {"zero", "nonzero"}, t \in StderrTexts, w \in BOOLEAN}
    \cup {[exit |-> "launchfail", stderr |-> "", wrote |-> FALSE, fs |-> files]}

\* upload_file(path) when it returns: the reference of the remote copy; it
\* leaves the local file alone.  It raises otherwise, and always does for a
\* file that is not there.
upload_file(files, path) == IF path \in files THEN Refs ELSE {}

(***************************************************************************)
(* State                                                                   *)
(***************************************************************************)
\* A job: the handler's locals (pc, job_id_param, i, local_input_paths,
\* output_filepath, command, final_output_url), what it answered (resp, or exc
\* when an exception left the handler), and a record of what the collaborators
\* were asked and did (fetchCalls .. rmFailed).
NewJob(req, pc) ==
    [pc |-> pc, req |-> req, job_id_param |-> "", i |-> 0,
     local_input_paths |-> <<>>, output_filepath |-> "", command |-> <<>>,
     final_output_url |-> "", resp |-> NoResponse, exc |-> "",
     fetchCalls |-> <<>>, fetched |-> <<>>, fetchFailedAt |-> 0,
     toolCalls |-> <<>>, toolExit |-> "none", toolStderr |-> "", toolWrote |-> FALSE,
     uploadCalls |-> <<>>, uploadRet |-> "", uploadFailed |-> FALSE,
     removed |-> {}, rmFailed |-> FALSE]

\* the scratch directory at the start: files of no job, a stale output file
InitialFiles == SUBSET {OtherFile, OutputFilepath("A")}

Init ==
    /\ \E req \in Requests :
         job = [j \in Jobs |-> IF j = 1 THEN NewJob(req, "received")
                                        ELSE NewJob([body |-> "absent"] @@ NoFields, "off")]
    /\ fs0 \in InitialFiles
    /\ fs = fs0

\* lines 151-154: the outermost handler answers for any Exception raised in the try
Unexpected(r, cause) ==
    [r EXCEPT !.pc = "returned", !.resp = UnexpectedErrorResponse(cause)]

\* a return statement of the handler
Return(r, response) == [r EXCEPT !.pc = "returned", !.resp = response]

\* what a cleanup that ended in `res` leaves in the job's record
Cleaned(r, before, res) ==
    [r EXCEPT !.removed = @ \cup (before \ res.fs), !.rmFailed = @ \/ res.raised]

(***************************************************************************)
(* Actions                                                                 *)
(***************************************************************************)
\* lines 52-53, outside the try: evaluate request.json.get('job_id', ...)
ReceiveRaises(j) ==
    /\ job[j].pc = "received"
    /\ \E e \in RequestJsonGetRaises(job[j].req) :
         job' = [job EXCEPT ![j] = [@ EXCEPT !.pc = "raised", !.exc = e]]
    /\ UNCHANGED <<fs, fs0>>

Receive(j) ==
    /\ job[j].pc = "received"
    /\ RequestJsonGetRaises(job[j].req) = {}
    /\ job' = [job EXCEPT ![j] =
                 [@ EXCEPT !.pc = "validate", !.job_id_param = JobIdParam(job[j].req, j)]]
    /\ UNCHANGED <<fs, fs0>>

\* lines 56-70: the field checks
Validate(j) ==
    /\ job[j].pc = "validate"
    /\ LET r == job[j] IN
       job' = [job EXCEPT ![j] =
                 IF DataIsEmpty(r.req) THEN Return(r, InvalidJsonResponse)
                 ELSE IF ~ InputUrlsOk(r.req.input_urls)
                   THEN Return(r, InvalidInputUrlsResponse)
                 ELSE IF ~ FilterComplexOk(r.req.filter_complex)
                   THEN Return(r, InvalidFilterComplexResponse)
                 ELSE [r EXCEPT !.pc = IF Len(r.req.input_urls.val) = 0
                                         THEN "execute" ELSE "download",
                                !.i = 1, !.local_input_paths = <<>>]]
    /\ UNCHANGED <<fs, fs0>>

\* the loop left for the tool after its first download
DownloadOk_LeavesLoopEarly(j) ==
    /\ job[j].pc = "download"
    /\ LET r == job[j]
           urls == r.req.input_urls.val
       IN \E d \in download_file(fs, urls[r.i]) :
            /\ fs' = d.fs
            /\ job' = [job EXCEPT ![j] =
                 [r EXCEPT !.local_input_paths = Append(@, d.path),
                           !.fetchCalls = Append(@, urls[r.i]),
                           !.fetched = Append(@, d.path),
                           !.i = @ + 1,
                           !.pc = "execute"]]
    /\ UNCHANGED fs0

\* the loop recording the path of its first download only
DownloadOk_DropsLaterPaths(j) ==
    /\ job[j].pc = "download"
    /\ LET r == job[j]
           urls == r.req.input_urls.val
       IN \E d \in download_file(fs, urls[r.i]) :
            /\ fs' = d.fs
            /\ job' = [job EXCEPT ![j] =
                 [r EXCEPT !.local_input_paths = IF @ = <<>> THEN <<d.path>> ELSE @,
                           !.fetchCalls = Append(@, urls[r.i]),
                           !.fetched = Append(@, d.path),
                           !.i = @ + 1,
                           !.pc = IF r.i = Len(urls) THEN "execute" ELSE "download"]]
    /\ UNCHANGED fs0

\* lines 71-76: download_file returns a path, the file is there
DownloadOk(j) ==
    /\ job[j].pc = "download"
    /\ LET r == job[j]
           urls == r.req.input_urls.val
       IN \E d \in download_file(fs, urls[r.i]) :
            /\ fs' = d.fs
            /\ job' = [job EXCEPT ![j] =
                 [r EXCEPT !.local_input_paths = Append(@, d.path),
                           !.fetchCalls = Append(@, urls[r.i]),
                           !.fetched = Append(@, d.path),
                           !.i = @ + 1,
                           !.pc = IF r.i = Len(urls) THEN "execute" ELSE "download"]]
    /\ UNCHANGED fs0

\* lines 77-82: download_file raises, having written nothing
DownloadFails(j) ==
    /\ job[j].pc = "download"
    /\ LET r == job[j]
           urls == r.req.input_urls.val
           called == [r EXCEPT !.fetchCalls = Append(@, urls[r.i]), !.fetchFailedAt = r.i]
       IN \E failAt \in 0..Len(r.local_input_paths) :
            LET res == CleanupAfterDownloadFailure(fs, r.local_input_paths, failAt) IN
            /\ failAt # 0 => res.raised
            /\ fs' = res.fs
            /\ job' = [job EXCEPT ![j] =
                 IF res.raised THEN Unexpected(Cleaned(called, fs, res), RemoveCause)
                 ELSE Return(Cleaned(called, fs, res),
                             DownloadFailedResponse(urls[r.i], FetchCause))]
    /\ UNCHANGED fs0

\* lines 86-123: build the command, run the tool, which exits with status zero
ExecuteExitsZero(j) ==
    /\ job[j].pc = "execute"
    /\ LET r == job[j]
           out == OutputFilepath(r.job_id_param)
           cmd == BuildCommand(r.local_input_paths, r.req.filter_complex.val, out)
       IN \E t \in subprocess_run(fs, cmd) :
            /\ t.exit = "zero"
            /\ fs' = t.fs
            /\ job' = [job EXCEPT ![j] =
                 [r EXCEPT !.output_filepath = out, !.command = cmd,
                           !.toolCalls = Append(@, cmd), !.toolExit = t.exit,
                           !.toolStderr = t.stderr, !.toolWrote = t.wrote,
                           !.pc = "check"]]
    /\ UNCHANGED fs0

\* lines 86-121, 124-130: the tool exits with a status that is not zero
ExecuteExitsNonZero(j) ==
    /\ job[j].pc = "execute"
    /\ LET r == job[j]
           out == OutputFilepath(r.job_id_param)
           cmd == BuildCommand(r.local_input_paths, r.req.filter_complex.val, out)
       IN \E t \in subprocess_run(fs, cmd), failAt \in 0..(Len(r.local_input_paths) + 1) :
            LET ran == [r EXCEPT !.output_filepath = out, !.command = cmd,
                                 !.toolCalls = Append(@, cmd), !.toolExit = t.exit,
                                 !.toolStderr = t.stderr, !.toolWrote = t.wrote]
                res == CleanupAfterToolFailure(t.fs, r.local_input_paths, out, failAt)
            IN /\ t.exit = "nonzero"
               /\ failAt # 0 => res.raised
               /\ fs' = res.fs
               /\ job' = [job EXCEPT ![j] =
                    IF res.raised THEN Unexpected(Cleaned(ran, t.fs, res), RemoveCause)
                    ELSE Return(Cleaned(ran, t.fs, res), FFmpegFailedResponse(t.stderr))]
    /\ UNCHANGED fs0

\* lines 86-121, 151-154: subprocess.run raises something that is no
\* CalledProcessError: the tool could not be launched
ExecuteCannotLaunch(j) ==
    /\ job[j].pc = "execute"
    /\ LET r == job[j]
           out == OutputFilepath(r.job_id_param)
           cmd == BuildCommand(r.local_input_paths, r.req.filter_complex.val, out)
       IN \E t \in subprocess_run(fs, cmd) :
            /\ t.exit = "launchfail"
            /\ fs' = t.fs
            /\ job' = [job EXCEPT ![j] =
                 Unexpected([r EXCEPT !.output_filepath = out, !.command = cmd,
                                      !.toolCalls = Append(@, cmd), !.toolExit = t.exit],
                            LaunchCause)]
    /\ UNCHANGED fs0

\* lines 133-138: the output file is not there
OutputMissing(j) ==
    /\ job[j].pc = "check"
    /\ job[j].output_filepath \notin fs
    /\ LET r == job[j] IN
       \E failAt \in 0..Len(r.local_input_paths) :
         LET res == CleanupAfterMissingOutput(fs, r.local_input_paths, failAt) IN
         /\ failAt # 0 => res.raised
         /\ fs' = res.fs
         /\ job' = [job EXCEPT ![j] =
              IF res.raised THEN Unexpected(Cleaned(r, fs, res), RemoveCause)
              ELSE Return(Cleaned(r, fs, res), OutputMissingResponse)]
    /\ UNCHANGED fs0

\* line 133, the output file is there: go on to the upload
OutputPresent(j) ==
    /\ job[j].pc = "check"
    /\ job[j].output_filepath \in fs
    /\ job' = [job EXCEPT ![j] = [@ EXCEPT !.pc = "upload"]]
    /\ UNCHANGED <<fs, fs0>>

\* lines 140-149: upload_file returns, clean up, answer 200
UploadOk(j) ==
    /\ job[j].pc = "upload"
    /\ LET r == job[j] IN
       \E ref \in upload_file(fs, r.output_filepath),
          failAt \in 0..(Len(r.local_input_paths) + 1) :
         LET up == [r EXCEPT !.uploadCalls = Append(@, r.output_filepath),
                             !.uploadRet = ref, !.final_output_url = ref]
             res == CleanupAfterUpload(fs, r.local_input_paths, r.output_filepath, failAt)
         IN /\ failAt # 0 => res.raised
            /\ fs' = res.fs
            /\ job' = [job EXCEPT ![j] =
                 IF res.raised THEN Unexpected(Cleaned(up, fs, res), RemoveCause)
                 ELSE Return(Cleaned(up, fs, res),
                             SuccessResponse(up.final_output_url, r.job_id_param))]
    /\ UNCHANGED fs0

\* a failed upload sent back for another try instead of being answered
UploadFails_Retries(j) ==
    /\ job[j].pc = "upload"
    /\ job' = [job EXCEPT ![j] = [@ EXCEPT !.pc = "check"]]
    /\ UNCHANGED <<fs, fs0>>

\* lines 141, 151-154: upload_file raises
UploadFails(j) ==
    /\ job[j].pc = "upload"
    /\ job' = [job EXCEPT ![j] =
         Unexpected([@ EXCEPT !.uploadCalls = Append(@, job[j].output_filepath),
                              !.uploadFailed = TRUE],
                    UploadCause)]
    /\ UNCHANGED <<fs, fs0>>

Next ==
    \E j \in Jobs :
        \/ ReceiveRaises(j)
        \/ Receive(j)
        \/ Validate(j)
        \/ DownloadOk(j)
        \/ DownloadFails(j)
        \/ ExecuteExitsZero(j)
        \/ ExecuteExitsNonZero(j)
        \/ ExecuteCannotLaunch(j)
        \/ OutputMissing(j)
        \/ OutputPresent(j)
        \/ UploadOk(j)
        \/ UploadFails(j)

Spec == Init /\ [][Next]_vars

\* every call in progress goes on: the calling thread is scheduled, and each
\* collaborator call returns or fails in the end
FairSpec == Spec /\ WF_vars(Next)

\* The cleanup step on its own: any list of input paths (repeats included), an
\* output path, and a scratch directory holding any of them or none.
InitCleanup ==
    /\ \E ps \in SeqsUpTo(DownloadPaths, MaxInputs) :
         job = [j \in Jobs |->
                  IF j = 1
                  THEN [NewJob([body |-> "object"] @@ NoFields, "cleanup")
                          EXCEPT !.local_input_paths = ps,
                                 !.output_filepath = OutputFilepath("A")]
                  ELSE NewJob([body |-> "absent"] @@ NoFields, "off")]
    /\ fs0 \in SUBSET (DownloadPaths \cup {OutputFilepath("A"), OtherFile})
    /\ fs = fs0

\* lines 127-129 applied (once more) to the recorded paths
ApplyCleanupAfterToolFailure(j) ==
    /\ job[j].pc = "cleanup"
    /\ job[j].i < MaxCleanups
    /\ LET r == job[j]
           res == CleanupAfterToolFailure(fs, r.local_input_paths, r.output_filepath, 0)
       IN /\ fs' = res.fs
          /\ job' = [job EXCEPT ![j] = [Cleaned(r, fs, res) EXCEPT !.i = @ + 1]]
    /\ UNCHANGED fs0

\* lines 145-147 applied (once more) to the recorded paths
ApplyCleanupAfterUpload(j) ==
    /\ job[j].pc = "cleanup"
    /\ job[j].i < MaxCleanups
    /\ LET r == job[j]
           res == CleanupAfterUpload(fs, r.local_input_paths, r.output_filepath, 0)
       IN /\ fs' = res.fs
          /\ job' = [job EXCEPT ![j] = [Cleaned(r, fs, res) EXCEPT !.i = @ + 1]]
    /\ UNCHANGED fs0

NextCleanup ==
    \E j \in Jobs :
        \/ ApplyCleanupAfterToolFailure(j)
        \/ ApplyCleanupAfterUpload(j)

SpecCleanup == InitCleanup /\ [][NextCleanup]_vars

\* two requests served at once, each by a thread of its own
ConcurrentRequests ==
    {[body |-> "absent"] @@ NoFields}
    \cup {[body |-> "object", job_id |-> i,
           input_urls |-> [kind |-> "list", val |-> <<"http://a/x.mp4">>],
           filter_complex |-> [kind |-> "str", val |-> "[0:a][1:a]amix[outa]"]] :
            i \in JobIdValues}

Init2 ==
    /\ job \in [Jobs -> {NewJob(req, "received") : req \in ConcurrentRequests}]
    /\ fs0 = {}
    /\ fs = fs0

Spec2 == Init2 /\ [][Next]_vars

(***************************************************************************)
(* What the claims speak of                                                *)
(***************************************************************************)
\* the call is over: it returned a response, or an exception left it
Over(j) == job[j].pc \in {"returned", "raised"}

\* the job id the request supplied, or the one generated for it
JobIdOf(j) ==
    IF job[j].req.job_id.kind = "str" THEN job[j].req.job_id.val ELSE Uuid4(j)

\* the job's output path, <scratch>/<job_id>_advanced_concat_output.mp4
OutputPathOf(j) == LOCAL_STORAGE_PATH \o "/" \o JobIdOf(j) \o "_advanced_concat_output.mp4"

\* the local artifacts the job created: the downloads, the output the tool wrote
ArtifactsOf(j) ==
    Range(job[j].fetched) \cup (IF job[j].toolWrote THEN {OutputPathOf(j)} ELSE {})

\* the request has a JSON object for a body and fails a field check
FieldsInvalid(j) ==
    LET u == job[j].req.input_urls
        f == job[j].req.filter_complex
    IN /\ job[j].req.body = "object"
       /\ \/ u.kind \in {"absent", "nonlist"}
          \/ u.val = <<>>
          \/ f.kind \in {"absent", "nonstr"}
          \/ f.val = ""

\* no collaborator was called and the scratch directory is as it was
NoExternalIO(j) ==
    /\ job[j].fetchCalls = <<>>
    /\ job[j].toolCalls = <<>>
    /\ job[j].uploadCalls = <<>>
    /\ job[j].removed = {}
    /\ fs = fs0

\* the status the client is answered with: the handler's, or the framework's
\* for the exception that left the handler
HttpStatus(j) ==
    CASE job[j].pc = "returned" -> job[j].resp.status
      [] job[j].exc = "BadRequest" -> 400
      [] job[j].exc = "UnsupportedMediaType" -> 415
      [] job[j].exc = "AttributeError" -> 500
      [] OTHER -> 0

(***************************************************************************)
(* C1: once the call is over, on every exit path, no local artifact the    *)
(* job created (no downloaded input, not the output it wrote) is left in   *)
(* the scratch directory (removals that themselves fail set aside).        *)
(***************************************************************************)
C1_NoArtifactOutlivesCall ==
    \A j \in Jobs :
        (Over(j) /\ ~ job[j].rmFailed) => ArtifactsOf(j) \cap fs = {}

(***************************************************************************)
(* C2: when every download succeeds, the tool exits with status zero, the  *)
(* output is there, the upload returns a reference and every removal goes  *)
(* through, the call returns 200 with output_url the reference the         *)
(* Publisher returned and job_id the one supplied or generated, and no     *)
(* downloaded input and no local output file is left.                      *)
(***************************************************************************)
C2_FullSuccess ==
    \A j \in Jobs :
        (/\ Over(j)
         /\ Len(job[j].fetched) = Len(job[j].req.input_urls.val)
         /\ job[j].toolExit = "zero"
         /\ job[j].uploadRet # ""
         /\ ~ job[j].rmFailed)
        => /\ job[j].pc = "returned"
           /\ job[j].resp.status = 200
           /\ job[j].resp.output_url = job[j].uploadRet
           /\ job[j].resp.job_id = JobIdOf(j)
           /\ Range(job[j].fetched) \cap fs = {}
           /\ OutputPathOf(j) \notin fs

C2_Witness ==
    \E j \in Jobs :
        /\ job[j].pc = "returned"
        /\ job[j].resp.status = 200
        /\ job[j].uploadRet # ""
        /\ Len(job[j].fetched) = 2
        /\ job[j].fetched[1] # job[j].fetched[2]
        /\ job[j].removed = Range(job[j].fetched) \cup {OutputPathOf(j)}

(***************************************************************************)
(* C3: if the download at position k fails, the k-1 artifacts downloaded   *)
(* before it, and nothing else, are removed; the Fetcher was asked for the *)
(* first k references and no later one; the tool and the Publisher were    *)
(* never invoked; the call returns 500 with an error naming reference k.   *)
(***************************************************************************)
C3_DownloadFailure ==
    \A j \in Jobs :
        LET k == job[j].fetchFailedAt
            urls == job[j].req.input_urls.val
        IN (Over(j) /\ k # 0 /\ ~ job[j].rmFailed)
           => /\ Len(job[j].fetched) = k - 1
              /\ job[j].removed = Range(job[j].fetched)
              /\ Range(job[j].fetched) \cap fs = {}
              /\ job[j].fetchCalls = SubSeq(urls, 1, k)
              /\ job[j].toolCalls = <<>>
              /\ job[j].uploadCalls = <<>>
              /\ job[j].pc = "returned"
              /\ job[j].resp.status = 500
              /\ job[j].resp.error = "Failed to download input file: " \o urls[k]

C3_Witness ==
    \E j \in Jobs :
        /\ job[j].pc = "returned"
        /\ job[j].fetchFailedAt = 2
        /\ Len(job[j].req.input_urls.val) >= 2
        /\ ~ job[j].rmFailed
        /\ job[j].removed = {job[j].fetched[1]}
        /\ job[j].resp.status = 500

(***************************************************************************)
(* C4: if the tool exits with a status that is not zero, then after the    *)
(* call every downloaded input is gone and the output path is gone, even   *)
(* if the tool had written it; the Publisher was never invoked; the        *)
(* response is 500 and carries the tool's standard-error text.             *)
(***************************************************************************)
C4_ToolFailure ==
    \A j \in Jobs :
        (Over(j) /\ job[j].toolExit = "nonzero" /\ ~ job[j].rmFailed)
        => /\ Range(job[j].fetched) \cap fs = {}
           /\ OutputPathOf(j) \notin fs
           /\ job[j].uploadCalls = <<>>
           /\ job[j].pc = "returned"
           /\ job[j].resp.status = 500
           /\ job[j].resp.details = job[j].toolStderr

C4_Witness ==
    \E j \in Jobs :
        /\ job[j].pc = "returned"
        /\ job[j].toolExit = "nonzero"
        /\ job[j].toolWrote
        /\ ~ job[j].rmFailed
        /\ job[j].toolStderr \in StderrTexts
        /\ Len(job[j].fetched) = 2
        /\ OutputPathOf(j) \in job[j].removed

(***************************************************************************)
(* C5: if the tool exits with status zero and the output path is not       *)
(* there, the call fails with the output-missing error, status 500 and     *)
(* never 200; the Publisher was never invoked; the downloaded inputs are   *)
(* gone when the call returns.                                             *)
(***************************************************************************)
C5_OutputMissing ==
    \A j \in Jobs :
        (/\ Over(j)
         /\ job[j].toolExit = "zero"
         /\ ~ job[j].toolWrote
         /\ OutputPathOf(j) \notin fs0
         /\ ~ job[j].rmFailed)
        => /\ job[j].pc = "returned"
           /\ job[j].resp.status = 500
           /\ job[j].resp.error = "Output file not found after FFmpeg execution"
           /\ job[j].uploadCalls = <<>>
           /\ Range(job[j].fetched) \cap fs = {}

C5_Witness ==
    \E j \in Jobs :
        /\ job[j].pc = "returned"
        /\ job[j].toolExit = "zero"
        /\ ~ job[j].toolWrote
        /\ OutputPathOf(j) \notin fs0
        /\ ~ job[j].rmFailed
        /\ Len(job[j].fetched) = 2
        /\ job[j].removed = Range(job[j].fetched)

(***************************************************************************)
(* C6: if upload_file fails after the tool succeeded and the output file   *)
(* is there, the downloaded inputs and the local output file are removed   *)
(* before the call returns, the upload is tried once, the response is 500. *)
(***************************************************************************)
C6_PublishFailure ==
    \A j \in Jobs :
        (Over(j) /\ job[j].uploadFailed)
        => /\ Range(job[j].fetched) \cap fs = {}
           /\ OutputPathOf(j) \notin fs
           /\ Len(job[j].uploadCalls) = 1
           /\ job[j].pc = "returned"
           /\ job[j].resp.status = 500

(***************************************************************************)
(* C7: a request (a JSON object) whose input_urls is absent, not a list or *)
(* empty, or whose filter_complex is absent, empty or not a string, is     *)
(* answered 400, and at no point of the call has the Fetcher, the tool or  *)
(* the Publisher been called or the scratch directory changed.             *)
(***************************************************************************)
C7_ValidationFailsFast ==
    \A j \in Jobs :
        FieldsInvalid(j)
        => /\ NoExternalIO(j)
           /\ Over(j) => (job[j].pc = "returned" /\ job[j].resp.status = 400)

C7_Witness ==
    \E j \in Jobs :
        /\ job[j].pc = "returned"
        /\ job[j].req.input_urls.kind = "list"
        /\ Len(job[j].req.input_urls.val) = 2
        /\ job[j].req.filter_complex.kind = "absent"
        /\ job[j].resp.status = 400
        /\ job[j].resp.error = "Missing or invalid 'filter_complex' string"

(***************************************************************************)
(* C8: for every request body and every failure of a collaborator, the     *)
(* call returns one JSON response with a status code; no exception ever    *)
(* leaves concatenate_advanced_api.                                        *)
(***************************************************************************)
C8_NoExceptionEscapes ==
    \A j \in Jobs :
        /\ job[j].pc # "raised"
        /\ job[j].pc = "returned" => job[j].resp.status \in {200, 400, 500}

(***************************************************************************)
(* C9: a request with no JSON body is answered with status 400, not 500    *)
(* and not an unhandled error.                                             *)
(***************************************************************************)
C9_MissingBodyIs400 ==
    \A j \in Jobs :
        (Over(j) /\ job[j].req.body = "absent") => HttpStatus(j) = 400

(***************************************************************************)
(* C10: whenever the tool is invoked for a request with N inputs, its      *)
(* argument vector holds exactly N '-i <path>' pairs, the i-th carrying    *)
(* the path downloaded for the i-th reference, all before the single       *)
(* '-filter_complex <filter_complex>' pair (the string as given), which    *)
(* comes before the fixed map and encoding arguments; the job's output     *)
(* path is the last argument.                                              *)
(***************************************************************************)
C10_ArgumentVector ==
    \A j \in Jobs :
        job[j].toolCalls # <<>>
        => LET argv == job[j].toolCalls[1]
               n == Len(job[j].req.input_urls.val)
           IN /\ Len(job[j].fetched) = n
              /\ Len(argv) = 2 * n + 20
              /\ \A i \in 1..n : argv[2 * i] = "-i" /\ argv[2 * i + 1] = job[j].fetched[i]
              /\ Cardinality({x \in 1..Len(argv) : argv[x] = "-i"}) = n
              /\ argv[2 * n + 2] = "-filter_complex"
              /\ argv[2 * n + 3] = job[j].req.filter_complex.val
              /\ Cardinality({x \in 1..Len(argv) : argv[x] = "-filter_complex"}) = 1
              /\ SubSeq(argv, 2 * n + 4, Len(argv) - 1) =
                    <<"-map", "[outv]", "-map", "[outa]", "-c:v", "libx264",
                      "-crf", "23", "-preset", "medium", "-c:a", "aac",
                      "-b:a", "128k", "-movflags", "+faststart">>
              /\ argv[Len(argv)] = OutputPathOf(j)

C10_Witness ==
    \E j \in Jobs :
        /\ job[j].toolCalls # <<>>
        /\ Len(job[j].fetched) = 2
        /\ job[j].fetched[1] # job[j].fetched[2]
        /\ job[j].req.job_id.kind = "absent"

\* job j is in the middle of its call
Running(j) == job[j].pc \notin {"off", "received", "returned", "raised"}

\* the scratch paths job j holds: its downloads and, once named, its output path
PathsOf(j) ==
    Range(job[j].local_input_paths)
    \cup (IF job[j].output_filepath = "" THEN {} ELSE {job[j].output_filepath})

(***************************************************************************)
(* C11: two requests running at once, the same caller-supplied job_id      *)
(* included, use disjoint scratch paths, and no artifact a running job     *)
(* created and has not removed itself is taken from under it.              *)
(***************************************************************************)
C11_JobsIndependent ==
    \A j \in Jobs : \A k \in Jobs \ {j} :
        (Running(j) /\ Running(k))
        => /\ PathsOf(j) \cap PathsOf(k) = {}
           /\ (ArtifactsOf(j) \ job[j].removed) \subseteq fs

(***************************************************************************)
(* C12: when removing a temp file fails in a cleanup step, the failure is  *)
(* not escalated: the call answers what it would have answered had the     *)
(* removal gone through (200 with the reference after an upload that       *)
(* returned, the download, tool or output-missing error otherwise).        *)
(***************************************************************************)
C12_CleanupFailureNotFatal ==
    \A j \in Jobs :
        (Over(j) /\ job[j].rmFailed)
        => /\ job[j].pc = "returned"
           /\ job[j].resp.error # "An unexpected error occurred"
           /\ job[j].uploadRet # ""
              => (job[j].resp.status = 200 /\ job[j].resp.output_url = job[j].uploadRet)
           /\ job[j].fetchFailedAt # 0
              => job[j].resp.error = "Failed to download input file: "
                                        \o job[j].req.input_urls.val[job[j].fetchFailedAt]
           /\ job[j].toolExit = "nonzero"
              => (job[j].resp.status = 500 /\ job[j].resp.details = job[j].toolStderr)
           /\ (job[j].toolExit = "zero" /\ job[j].uploadCalls = <<>>)
              => job[j].resp.error = "Output file not found after FFmpeg execution"

(***************************************************************************)
(* C13: once the downloads have begun, and every collaborator call returns *)
(* or fails in the end, the call comes to its end (a response returned);   *)
(* and a call that is over stays as it ended: no retry, no stage resumed.  *)
(***************************************************************************)
C13_RunsToTerminalState ==
    /\ \A j \in Jobs : (job[j].pc = "download") ~> (job[j].pc = "returned")
    /\ [][\A j \in Jobs : Over(j) => job'[j] = job[j]]_vars

C13_Witness ==
    \E j \in Jobs :
        /\ job[j].pc = "returned"
        /\ Len(job[j].fetchCalls) = 2
        /\ job[j].toolCalls # <<>>
        /\ job[j].uploadCalls # <<>>

(***************************************************************************)
(* C14: a request whose input_urls list holds an element that is not a     *)
(* string is rejected with status 400, and the Fetcher is never called     *)
(* for any of its references.                                              *)
(***************************************************************************)
C14_NonStringElementRejected ==
    \A j \in Jobs :
        (/\ job[j].req.body = "object"
         /\ job[j].req.input_urls.kind = "list"
         /\ NonString \in Range(job[j].req.input_urls.val))
        => /\ job[j].fetchCalls = <<>>
           /\ Over(j) => (job[j].pc = "returned" /\ job[j].resp.status = 400)

(***************************************************************************)
(* C15: the cleanup step (remove each recorded input path, then the output *)
(* path) raises no error when applied a second time, to a list holding the *)
(* same path twice, or to paths already removed, and every application     *)
(* after the first leaves the scratch directory as the first left it: the  *)
(* directory it started from less the listed paths.                        *)
(***************************************************************************)
C15_CleanupIdempotent ==
    \A j \in Jobs :
        (job[j].pc = "cleanup" /\ job[j].i >= 1)
        => /\ ~ job[j].rmFailed
           /\ fs = fs0 \ PathsOf(j)
           /\ job[j].removed = fs0 \cap PathsOf(j)

C15_Witness ==
    \E j \in Jobs :
        /\ job[j].pc = "cleanup"
        /\ job[j].i = 2
        /\ Len(job[j].local_input_paths) = 2
        /\ job[j].local_input_paths[1] = job[j].local_input_paths[2]
        /\ job[j].local_input_paths[1] \in job[j].removed
        /\ job[j].output_filepath \notin fs0
        /\ OtherFile \in fs

(***************************************************************************)
(* C16: within one job the stages come in order and do not overlap: the    *)
(* downloads are issued one by one in input order; the tool is invoked at  *)
(* most once and only after all N downloads succeeded; the Publisher is    *)
(* invoked at most once and only after the tool exited with status zero    *)
(* and the output path was there; the 200 response comes only after the    *)
(* Publisher returned; no earlier stage is entered again.                  *)
(***************************************************************************)
StagesInOrder(j) ==
    LET urls == job[j].req.input_urls.val IN
    /\ Len(job[j].fetchCalls) <= Len(urls)
    /\ job[j].fetchCalls = SubSeq(urls, 1, Len(job[j].fetchCalls))
    /\ Len(job[j].toolCalls) <= 1
    /\ job[j].toolCalls # <<>>
       => (Len(job[j].fetched) = Len(urls) /\ job[j].fetchFailedAt = 0)
    /\ Len(job[j].uploadCalls) <= 1
    /\ job[j].uploadCalls # <<>>
       => /\ job[j].toolCalls # <<>>
          /\ job[j].toolExit = "zero"
          /\ job[j].toolWrote \/ OutputPathOf(j) \in fs0
    /\ job[j].resp.status = 200 => job[j].uploadRet # ""

C16_StagesInOrder ==
    /\ [](\A j \in Jobs : StagesInOrder(j))
    /\ [][\A j \in Jobs :
            /\ job[j].toolCalls # <<>> => job'[j].fetchCalls = job[j].fetchCalls
            /\ job[j].uploadCalls # <<>>
               => (job'[j].fetchCalls = job[j].fetchCalls
                   /\ job'[j].toolCalls = job[j].toolCalls)]_vars

C16_Witness ==
    \E j \in Jobs :
        /\ job[j].pc = "returned"
        /\ job[j].resp.status = 200
        /\ Len(job[j].fetchCalls) = 2
        /\ Len(job[j].toolCalls) = 1
        /\ Len(job[j].uploadCalls) = 1

(***************************************************************************)
(* C17: if the tool process cannot be launched (subprocess.run raises      *)
(* something other than CalledProcessError), the call still returns 500    *)
(* and every downloaded input and the output path are gone when it         *)
(* returns.                                                                *)
(***************************************************************************)
C17_LaunchFailureCleansUp ==
    \A j \in Jobs :
        (Over(j) /\ job[j].toolExit = "launchfail")
        => /\ job[j].pc = "returned"
           /\ job[j].resp.status = 500
           /\ Range(job[j].fetched) \cap fs = {}
           /\ OutputPathOf(j) \notin fs

(***************************************************************************)
(* C18: at every point of the download loop and after it,                  *)
(* local_input_paths is the sequence of paths the successful Fetcher calls *)
(* returned so far, in input order, one per reference fetched; a reference *)
(* that failed or was not tried adds no path to a cleanup or to the tool's *)
(* arguments.                                                              *)
(***************************************************************************)
C18_RecordedPathsAreFetchedPaths ==
    \A j \in Jobs :
        job[j].pc \in {"download", "execute", "check", "upload", "returned"}
        => /\ job[j].local_input_paths = job[j].fetched
           /\ Len(job[j].local_input_paths) =
                 Len(job[j].fetchCalls) - (IF job[j].fetchFailedAt = 0 THEN 0 ELSE 1)
           /\ job[j].pc = "download" => Len(job[j].local_input_paths) = job[j].i - 1
           /\ job[j].removed \subseteq Range(job[j].fetched) \cup {OutputPathOf(j)}
           /\ \A c \in Range(job[j].toolCalls) :
                 {c[x] : x \in {y \in 2..Len(c) : c[y - 1] = "-i"}} = Range(job[j].fetched)

C18_Witness ==
    \E j \in Jobs :
        /\ job[j].pc = "download"
        /\ job[j].i = 2
        /\ Len(job[j].local_input_paths) = 1
        /\ job[j].local_input_paths[1] \in fs

(***************************************************************************)
(* C19: a job removes no path but those download_file returned to it and   *)
(* its own output path <job_id>_advanced_concat_output.mp4; every other    *)
(* file of the scratch directory is there, at every stage and after every  *)
(* cleanup branch, as it was.                                              *)
(***************************************************************************)
C19_OnlyOwnPathsRemoved ==
    LET own == UNION {Range(job[j].fetched) \cup {OutputPathOf(j)} :
                        j \in {k \in Jobs : job[k].pc # "off"}}
    IN /\ \A j \in Jobs :
            job[j].removed \subseteq Range(job[j].fetched) \cup {OutputPathOf(j)}
       /\ (fs0 \ fs) \subseteq own
       /\ fs \subseteq fs0 \cup own

C19_Witness ==
    \E j \in Jobs :
        /\ job[j].pc = "returned"
        /\ OtherFile \in fs0
        /\ OtherFile \in fs
        /\ Len(job[j].fetched) = 2
        /\ job[j].removed = Range(job[j].fetched) \cup {OutputPathOf(j)}
        /\ OutputPathOf(j) \in fs0

====
